---- MODULE Spec2Model ----
(***************************************************************************)
(* The Pokemon team service of src/main.rs: a Vec<Pokemon> behind one      *)
(* Arc<Mutex<..>>, and the five axum handlers that lock it, read or change *)
(* it, and answer.  Every handler is modelled statement by statement, so   *)
(* that what the mutex buys is something the model checker decides.        *)
(***************************************************************************)
EXTENDS Integers, Sequences, FiniteSets, TLC

(* ---------------------------------------------------------------- bounds *)
\* Requests in flight at once (tokio tasks running a handler).
NumTasks == 2
\* create_pokemon calls a behaviour may make.
MaxCreates == 2

(* ------------------------------------------------------------- constants *)
\* Pokemon.id is a u32.  A u32 is kept at its full width as two 16-bit limbs,
\* <<high, low>>, standing for high * 2^16 + low.
Limb == 2^16
U32(n) == <<n \div Limb, n % Limb>>
U32Max == <<Limb - 1, Limb - 1>>

CREATED == 201
OK == 200
NO_CONTENT == 204
NOT_FOUND == 404

Tasks == 1..NumTasks
NoTask == 0

(* ----------------------------------------------------------------- data *)
\* Option<T>: None is <<>>, Some(v) is <<v>>.
None == <<>>
Some(v) == <<v>>

\* models.rs Pokemon.  seq is a history field the code does not have: the
\* position of the record's creation among the creations of the behaviour
\* (0 and below: created before it starts), used only to say "in the order in
\* which they were created".
Pokemon(id, name, poke_type, level, seq) ==
    [id |-> id, name |-> name, poke_type |-> poke_type, level |-> level, seq |-> seq]

\* models.rs CreatePokemon: every field required.
CreatePokemon ==
    { [name |-> "Pikachu", poke_type |-> "Electric", level |-> 5],
      [name |-> "Bulbasaur", poke_type |-> "Grass", level |-> 3] }

\* models.rs UpdatePokemon: every field an Option.
UpdatePokemon ==
    [name : {None, Some("Raichu")}, poke_type : {None, Some("Steel")}, level : {None, Some(10)}]

\* The ids a request path may carry.
PathIds == {U32(1), U32(2), U32Max}

\* Payload of a request that has no body.
NoPayload == [name |-> None, poke_type |-> None, level |-> None]

\* A handler's answer: status and body (the records serialised, none for a bare status).
Response(status, body) == [status |-> status, body |-> body]
NoResponse == Response(0, <<>>)
\* The handler panicked: the connection is closed with no answer on it.
Dropped == Response(-1, <<>>)

VARIABLES
    team,             \* the Vec<Pokemon> inside the Mutex
    lock,             \* the task holding the MutexGuard, or NoTask
    poisoned,         \* the Mutex's poison flag
    overflow_checks,  \* the build: TRUE panics on u32 overflow, FALSE wraps
    created,          \* history: number of records pushed in this behaviour
    pc,               \* each task's position in its handler
    req,              \* each task's request: handler, path id, payload
    new_id,           \* create_pokemon's local
    pokemon,          \* update_pokemon's local: index found by iter_mut().find, 0 for None
    original_len,     \* delete_pokemon's local
    resp,             \* each task's answer once built
    pre,              \* history: the team as the task found it when it got the lock
    latest,           \* history: per creation stamp, the record as its Create or its last
                      \* Update answered it, None once a Delete of its id answered 204
    serial,           \* history: the team left by running the handlers one at a time,
                      \* whole, in the order in which they got the lock
    due,              \* history: the answer that one-at-a-time run gives each task
    sent,             \* each task's answer after its handler returned, until it is written
                      \* to the connection
    wrapped,          \* history: last_pokemon.id + 1 has overflowed and wrapped
    deleted,          \* history: the id of the last Delete answered 204 and whether its
                      \* record was the team's last, None once a Create has answered since
    gone              \* history: id, creation stamp and was-last of every record deleted

vars == <<team, lock, poisoned, overflow_checks, created, pc, req, new_id, pokemon,
          original_len, resp, pre, latest, serial, due, sent, wrapped, deleted, gone>>

history == <<wrapped, deleted, gone>>

locals == <<new_id, pokemon, original_len>>

(* ------------------------------------------------------- pure operations *)
\* Fault: the + 1 is missing.
SameId(n) == n

\* n + 1 on u32 as a build without overflow checks does it: modulo 2^32.
WrappingInc(n) ==
    IF n[2] + 1 < Limb THEN <<n[1], n[2] + 1>> ELSE <<(n[1] + 1) % Limb, 0>>

\* Fault: the id is the team's length plus 1.
NextIdByLen(t) == U32(Len(t) + 1)

\* team.last() followed by last_pokemon.id + 1, or 1 (the value a wrapping build computes).
NextId(t) == IF Len(t) > 0 THEN WrappingInc(t[Len(t)].id) ELSE U32(1)

\* last_pokemon.id + 1 overflows u32.
Overflows(t) == Len(t) > 0 /\ t[Len(t)].id = U32Max

\* Fault: the closure compares with != .
FindOther(t, id) ==
    IF \E i \in 1..Len(t) : t[i].id # id
    THEN CHOOSE i \in 1..Len(t) : t[i].id # id /\ \A j \in 1..(i - 1) : t[j].id = id
    ELSE 0

\* team.iter().find(|p| p.id == id): index of the first match, 0 for None.
Find(t, id) ==
    IF \E i \in 1..Len(t) : t[i].id = id
    THEN CHOOSE i \in 1..Len(t) : t[i].id = id /\ \A j \in 1..(i - 1) : t[j].id # id
    ELSE 0

\* Fault: the closure keeps the matching records, == for != .
KeepsOnlyId(p, id) == p.id = id

\* team.retain(|p| p.id != id): the closure.
KeepsId(p, id) == p.id # id
Retain(t, id) == SelectSeq(t, LAMBDA p : KeepsId(p, id))

\* Fault: payload.name.unwrap_or_default() written unconditionally.
SetNameOrDefault(p, payload) ==
    [p EXCEPT !.name = IF payload.name # None THEN payload.name[1] ELSE ""]

\* Fault: the poke_type branch assigns pokemon.name.
SetPokeTypeIntoName(p, payload) ==
    IF payload.poke_type # None THEN [p EXCEPT !.name = payload.poke_type[1]] ELSE p

\* Fault: the level branch assigns pokemon.id.
SetLevelIntoId(p, payload) ==
    IF payload.level # None THEN [p EXCEPT !.id = U32(payload.level[1])] ELSE p

\* if let Some(name) = payload.name { pokemon.name = name; }
SetName(p, payload) ==
    IF payload.name # None THEN [p EXCEPT !.name = payload.name[1]] ELSE p
SetPokeType(p, payload) ==
    IF payload.poke_type # None THEN [p EXCEPT !.poke_type = payload.poke_type[1]] ELSE p
SetLevel(p, payload) ==
    IF payload.level # None THEN [p EXCEPT !.level = payload.level[1]] ELSE p

\* Pokemon{ id: new_id, name: payload.name, ... }
NewPokemon(id, payload, seq) ==
    Pokemon(id, payload.name, payload.poke_type, payload.level, seq)

\* Fault: team.insert(0, p).
PushFront(t, p) == <<p>> \o t

\* team.push(p)
Push(t, p) == Append(t, p)

\* The handlers, each run whole on the team t0.  stamp is the creation stamp a
\* new record gets, checks the build's overflow checks.
RunCreate(t0, payload, stamp, checks) ==
    IF checks /\ Overflows(t0)
    THEN [team |-> t0, resp |-> NoResponse]
    ELSE LET new_pokemon == NewPokemon(NextId(t0), payload, stamp)
         IN [team |-> Push(t0, new_pokemon), resp |-> Response(CREATED, <<new_pokemon>>)]

RunList(t0) == [team |-> t0, resp |-> Response(OK, t0)]

RunGet(t0, id) ==
    LET i == Find(t0, id)
    IN [team |-> t0,
        resp |-> IF i # 0 THEN Response(OK, <<t0[i]>>) ELSE Response(NOT_FOUND, <<>>)]

RunUpdate(t0, id, payload) ==
    LET i == Find(t0, id)
    IN IF i = 0
       THEN [team |-> t0, resp |-> Response(NOT_FOUND, <<>>)]
       ELSE LET p == SetLevel(SetPokeType(SetName(t0[i], payload), payload), payload)
            IN [team |-> [t0 EXCEPT ![i] = p], resp |-> Response(OK, <<p>>)]

RunDelete(t0, id) ==
    LET kept == Retain(t0, id)
    IN [team |-> kept,
        resp |-> IF Len(kept) < Len(t0)
                 THEN Response(NO_CONTENT, <<>>) ELSE Response(NOT_FOUND, <<>>)]

Run(r, t0, stamp, checks) ==
    CASE r.kind = "create" -> RunCreate(t0, r.payload, stamp, checks)
      [] r.kind = "list"   -> RunList(t0)
      [] r.kind = "get"    -> RunGet(t0, r.id)
      [] r.kind = "update" -> RunUpdate(t0, r.id, r.payload)
      [] r.kind = "delete" -> RunDelete(t0, r.id)

\* Fault: no mutual exclusion (a lock per request instead of the shared one).
NeverHeld(holder) == TRUE

\* Mutex::lock blocks until no guard is alive.
MutexFree(holder) == holder = NoTask

(* ----------------------------------------------------------------- Init *)
\* Two teams the server can hold: the empty one main() builds, and one left by
\* 2^32 - 1 creations of which the first and the last record were kept.
InitTeams ==
    { <<>>,
      << Pokemon(U32(1), "Pikachu", "Electric", 5, -1),
         Pokemon(U32Max, "Bulbasaur", "Grass", 3, 0) >> }

\* Creation stamps: 0 and below for the records Init starts with.
Stamps == -1..MaxCreates

LatestOf(t) ==
    [s \in Stamps |->
        IF \E i \in 1..Len(t) : t[i].seq = s
        THEN Some(t[CHOOSE i \in 1..Len(t) : t[i].seq = s])
        ELSE None]

Init ==
    /\ team \in InitTeams
    /\ lock = NoTask
    /\ poisoned = FALSE
    /\ overflow_checks \in BOOLEAN
    /\ created = 0
    /\ pc = [t \in Tasks |-> "idle"]
    /\ req = [t \in Tasks |-> [kind |-> "none", id |-> U32(0), payload |-> NoPayload]]
    /\ new_id = [t \in Tasks |-> U32(0)]
    /\ pokemon = [t \in Tasks |-> 0]
    /\ original_len = [t \in Tasks |-> 0]
    /\ resp = [t \in Tasks |-> NoResponse]
    /\ pre = [t \in Tasks |-> <<>>]
    /\ latest = LatestOf(team)
    /\ serial = team
    /\ due = [t \in Tasks |-> NoResponse]
    /\ sent = [t \in Tasks |-> NoResponse]
    /\ wrapped = FALSE
    /\ deleted = None
    /\ gone = {}

(* ------------------------------------------------------- request arrival *)
Pending(kind) == Cardinality({t \in Tasks : pc[t] # "idle" /\ req[t].kind = kind})

Call(t, kind, id, payload) ==
    /\ pc[t] = "idle"
    /\ sent[t] = NoResponse
    /\ pc' = [pc EXCEPT ![t] = "lock"]
    /\ req' = [req EXCEPT ![t] = [kind |-> kind, id |-> id, payload |-> payload]]
    /\ UNCHANGED <<team, lock, poisoned, overflow_checks, created, locals, resp, pre, latest,
                   serial, due, sent, history>>

\* POST /pokemon
CallCreate(t, payloads) ==
    /\ created + Pending("create") < MaxCreates
    /\ \E payload \in payloads : Call(t, "create", U32(0), payload)
\* GET /pokemon
CallList(t) == Call(t, "list", U32(0), NoPayload)
\* GET /pokemon/{id}
CallGet(t, ids) == \E id \in ids : Call(t, "get", id, NoPayload)
\* PUT /pokemon/{id}
CallUpdate(t, ids, payloads) ==
    \E id \in ids : \E payload \in payloads : Call(t, "update", id, payload)
\* DELETE /pokemon/{id}
CallDelete(t, ids) == \E id \in ids : Call(t, "delete", id, NoPayload)

(* ------------------------------------------------------------- the mutex *)
FirstPc(kind) ==
    CASE kind = "create" -> "c_new_id"
      [] kind = "list"   -> "l_clone"
      [] kind = "get"    -> "g_find"
      [] kind = "update" -> "u_find"
      [] kind = "delete" -> "d_len"

\* Fault: the poison is ignored, state.lock().unwrap_or_else(|e| e.into_inner()).
LockEvenIfPoisoned(t) ==
    /\ pc[t] = "lock"
    /\ MutexFree(lock)
    /\ lock' = t
    /\ pc' = [pc EXCEPT ![t] = FirstPc(req[t].kind)]
    /\ pre' = [pre EXCEPT ![t] = team]
    /\ LET run == Run(req[t], serial, created + 1, overflow_checks)
       IN /\ serial' = run.team
          /\ due' = [due EXCEPT ![t] = run.resp]
    /\ UNCHANGED <<team, poisoned, overflow_checks, created, req, locals, resp, latest, sent,
                   history>>

\* state.lock().unwrap() on a healthy mutex.
Lock(t) ==
    /\ pc[t] = "lock"
    /\ MutexFree(lock)
    /\ ~poisoned
    /\ lock' = t
    /\ pc' = [pc EXCEPT ![t] = FirstPc(req[t].kind)]
    /\ pre' = [pre EXCEPT ![t] = team]
    /\ LET run == Run(req[t], serial, created + 1, overflow_checks)
       IN /\ serial' = run.team
          /\ due' = [due EXCEPT ![t] = run.resp]
    /\ UNCHANGED <<team, poisoned, overflow_checks, created, req, locals, resp, latest, sent,
                   history>>

\* The task is over without an answer: its locals go, and so does its guard.
Abort(t) ==
    /\ pc' = [pc EXCEPT ![t] = "idle"]
    /\ req' = [req EXCEPT ![t] = [kind |-> "none", id |-> U32(0), payload |-> NoPayload]]
    /\ new_id' = [new_id EXCEPT ![t] = U32(0)]
    /\ pokemon' = [pokemon EXCEPT ![t] = 0]
    /\ original_len' = [original_len EXCEPT ![t] = 0]
    /\ resp' = [resp EXCEPT ![t] = NoResponse]
    /\ pre' = [pre EXCEPT ![t] = <<>>]
    /\ due' = [due EXCEPT ![t] = NoResponse]

\* state.lock().unwrap() on a poisoned mutex: lock() returns Err, unwrap panics,
\* the guard inside the error is dropped.
LockPoisoned(t) ==
    /\ pc[t] = "lock"
    /\ MutexFree(lock)
    /\ poisoned
    /\ Abort(t)
    /\ sent' = [sent EXCEPT ![t] = Dropped]
    /\ UNCHANGED <<team, lock, poisoned, overflow_checks, created, latest, serial, history>>

(* -------------------------------------------------------- create_pokemon *)
\* let new_id: u32 = if let Some(last_pokemon) = team.last() { last_pokemon.id + 1 } else { 1 };
CreateNewId(t) ==
    /\ pc[t] = "c_new_id"
    /\ ~(overflow_checks /\ Overflows(team))
    /\ new_id' = [new_id EXCEPT ![t] = NextId(team)]
    /\ pc' = [pc EXCEPT ![t] = "c_push"]
    /\ wrapped' = (wrapped \/ Overflows(team))
    /\ UNCHANGED <<team, lock, poisoned, overflow_checks, created, req, pokemon,
                   original_len, resp, pre, latest, serial, due, sent, deleted, gone>>

\* last_pokemon.id + 1 in a build with overflow checks, at id = u32::MAX: the
\* handler panics, and the guard dropped while unwinding poisons the mutex.
CreatePanic(t) ==
    /\ pc[t] = "c_new_id"
    /\ overflow_checks /\ Overflows(team)
    /\ poisoned' = TRUE
    /\ lock' = NoTask
    /\ Abort(t)
    /\ sent' = [sent EXCEPT ![t] = Dropped]
    /\ UNCHANGED <<team, overflow_checks, created, latest, serial, history>>

\* team.push(new_pokemon.clone()); (StatusCode::CREATED, Json(new_pokemon))
CreatePush(t) ==
    /\ pc[t] = "c_push"
    /\ LET new_pokemon == NewPokemon(new_id[t], req[t].payload, created + 1)
       IN /\ team' = Push(team, new_pokemon)
          /\ resp' = [resp EXCEPT ![t] = Response(CREATED, <<new_pokemon>>)]
    /\ created' = created + 1
    /\ pc' = [pc EXCEPT ![t] = "ret"]
    /\ UNCHANGED <<lock, poisoned, overflow_checks, req, locals, pre, latest, serial, due, sent, history>>

(* ------------------------------------------------------- get_all_pokemon *)
\* Fault: the vector is moved out of the mutex, Json(std::mem::take(&mut *team)).
ListTake(t) ==
    /\ pc[t] = "l_clone"
    /\ resp' = [resp EXCEPT ![t] = Response(OK, team)]
    /\ team' = <<>>
    /\ pc' = [pc EXCEPT ![t] = "ret"]
    /\ UNCHANGED <<lock, poisoned, overflow_checks, created, req, locals, pre, latest, serial,
                   due, sent, history>>

\* Json(team.clone())
ListClone(t) ==
    /\ pc[t] = "l_clone"
    /\ resp' = [resp EXCEPT ![t] = Response(OK, team)]
    /\ pc' = [pc EXCEPT ![t] = "ret"]
    /\ UNCHANGED <<team, lock, poisoned, overflow_checks, created, req, locals, pre, latest, serial, due, sent, history>>

(* ----------------------------------------------------- get_pokemon_by_id *)
\* if let Some(pokemon) = team.iter().find(..) { Ok(Json(pokemon.clone())) } else { Err(NOT_FOUND) }
GetFind(t) ==
    /\ pc[t] = "g_find"
    /\ LET i == Find(team, req[t].id)
       IN resp' = [resp EXCEPT ![t] =
                     IF i # 0 THEN Response(OK, <<team[i]>>) ELSE Response(NOT_FOUND, <<>>)]
    /\ pc' = [pc EXCEPT ![t] = "ret"]
    /\ UNCHANGED <<team, lock, poisoned, overflow_checks, created, req, locals, pre, latest, serial, due, sent, history>>

(* -------------------------------------------------------- update_pokemon *)
\* if let Some(pokemon) = team.iter_mut().find(|p| p.id == id) { .. } else { Err(NOT_FOUND) }
UpdateFind(t) ==
    /\ pc[t] = "u_find"
    /\ LET i == Find(team, req[t].id)
       IN /\ pokemon' = [pokemon EXCEPT ![t] = i]
          /\ IF i # 0
             THEN /\ pc' = [pc EXCEPT ![t] = "u_name"]
                  /\ resp' = resp
             ELSE /\ pc' = [pc EXCEPT ![t] = "ret"]
                  /\ resp' = [resp EXCEPT ![t] = Response(NOT_FOUND, <<>>)]
    /\ UNCHANGED <<team, lock, poisoned, overflow_checks, created, req, new_id,
                   original_len, pre, latest, serial, due, sent, history>>

\* if let Some(name) = payload.name { pokemon.name = name; }
UpdateName(t) ==
    /\ pc[t] = "u_name"
    /\ team' = [team EXCEPT ![pokemon[t]] = SetName(team[pokemon[t]], req[t].payload)]
    /\ pc' = [pc EXCEPT ![t] = "u_type"]
    /\ UNCHANGED <<lock, poisoned, overflow_checks, created, req, locals, resp, pre, latest,
                   serial, due, sent, history>>

\* if let Some(poke_type) = payload.poke_type { pokemon.poke_type = poke_type; }
UpdatePokeType(t) ==
    /\ pc[t] = "u_type"
    /\ team' = [team EXCEPT ![pokemon[t]] = SetPokeType(team[pokemon[t]], req[t].payload)]
    /\ pc' = [pc EXCEPT ![t] = "u_level"]
    /\ UNCHANGED <<lock, poisoned, overflow_checks, created, req, locals, resp, pre, latest,
                   serial, due, sent, history>>

\* if let Some(level) = payload.level { pokemon.level = level; }
UpdateLevel(t) ==
    /\ pc[t] = "u_level"
    /\ team' = [team EXCEPT ![pokemon[t]] = SetLevel(team[pokemon[t]], req[t].payload)]
    /\ pc' = [pc EXCEPT ![t] = "u_clone"]
    /\ UNCHANGED <<lock, poisoned, overflow_checks, created, req, locals, resp, pre, latest,
                   serial, due, sent, history>>

\* Ok(Json(pokemon.clone()))
UpdateClone(t) ==
    /\ pc[t] = "u_clone"
    /\ resp' = [resp EXCEPT ![t] = Response(OK, <<team[pokemon[t]]>>)]
    /\ pc' = [pc EXCEPT ![t] = "ret"]
    /\ UNCHANGED <<team, lock, poisoned, overflow_checks, created, req, locals, pre, latest, serial, due, sent, history>>

(* -------------------------------------------------------- delete_pokemon *)
\* let original_len = team.len();
DeleteLen(t) ==
    /\ pc[t] = "d_len"
    /\ original_len' = [original_len EXCEPT ![t] = Len(team)]
    /\ pc' = [pc EXCEPT ![t] = "d_retain"]
    /\ UNCHANGED <<team, lock, poisoned, overflow_checks, created, req, new_id, pokemon,
                   resp, pre, latest, serial, due, sent, history>>

\* team.retain(|p| p.id != id);
DeleteRetain(t) ==
    /\ pc[t] = "d_retain"
    /\ team' = Retain(team, req[t].id)
    /\ pc' = [pc EXCEPT ![t] = "d_cmp"]
    /\ UNCHANGED <<lock, poisoned, overflow_checks, created, req, locals, resp, pre, latest, serial, due, sent, history>>

\* if team.len() < original_len { NO_CONTENT } else { NOT_FOUND }
DeleteCmp(t) ==
    /\ pc[t] = "d_cmp"
    /\ resp' = [resp EXCEPT ![t] =
                  IF Len(team) < original_len[t]
                  THEN Response(NO_CONTENT, <<>>) ELSE Response(NOT_FOUND, <<>>)]
    /\ pc' = [pc EXCEPT ![t] = "ret"]
    /\ UNCHANGED <<team, lock, poisoned, overflow_checks, created, req, locals, pre, latest, serial, due, sent, history>>

(* ---------------------------------------------------------------- return *)
\* What the answered request leaves as the latest version of each record.
Record(t, l) ==
    CASE req[t].kind = "create" ->
            [l EXCEPT ![resp[t].body[1].seq] = resp[t].body]
      [] req[t].kind = "update" /\ resp[t].status = OK ->
            [l EXCEPT ![resp[t].body[1].seq] = resp[t].body]
      [] req[t].kind = "delete" /\ resp[t].status = NO_CONTENT ->
            [s \in Stamps |-> IF l[s] # None /\ l[s][1].id = req[t].id THEN None ELSE l[s]]
      [] OTHER -> l

\* The records the answered Delete of task t removed, and the Delete itself.
Removed(t) ==
    LET before == pre[t]
    IN {[id |-> before[i].id, seq |-> before[i].seq, last |-> i = Len(before)] :
            i \in {j \in 1..Len(before) : before[j].id = req[t].id}}
LastDeleted(t) ==
    Some([id |-> req[t].id, last |-> pre[t][Len(pre[t])].id = req[t].id])

\* Fault: the guard is leaked (std::mem::forget), the mutex stays locked.
ReturnLeakingGuard(t) ==
    /\ pc[t] = "ret"
    /\ latest' = Record(t, latest)
    /\ Abort(t)
    /\ sent' = [sent EXCEPT ![t] = resp[t]]
    /\ UNCHANGED <<team, lock, poisoned, overflow_checks, created, serial, history>>

\* The handler returns: the answer leaves, the guard is dropped, the locals go.
Return(t) ==
    /\ pc[t] = "ret"
    /\ lock' = IF lock = t THEN NoTask ELSE lock
    /\ latest' = Record(t, latest)
    /\ Abort(t)
    /\ sent' = [sent EXCEPT ![t] = resp[t]]
    /\ IF req[t].kind = "delete" /\ resp[t].status = NO_CONTENT
       THEN deleted' = LastDeleted(t) /\ gone' = gone \cup Removed(t)
       ELSE /\ deleted' = IF req[t].kind = "create" THEN None ELSE deleted
            /\ gone' = gone
    /\ UNCHANGED <<team, poisoned, overflow_checks, created, serial, wrapped>>

\* axum writes the answer (or closes the connection of a panicked handler); the
\* connection can carry its next request.
Respond(t) ==
    /\ sent[t] # NoResponse
    /\ sent' = [sent EXCEPT ![t] = NoResponse]
    /\ UNCHANGED <<team, lock, poisoned, overflow_checks, created, pc, req, locals, resp, pre,
                   latest, serial, due, history>>

(* ------------------------------------------------------------------ Next *)
\* One statement of the handler task t is running.
Step(t) ==
    \/ Lock(t)
    \/ LockPoisoned(t)
    \/ CreateNewId(t)
    \/ CreatePanic(t)
    \/ CreatePush(t)
    \/ ListClone(t)
    \/ GetFind(t)
    \/ UpdateFind(t)
    \/ UpdateName(t)
    \/ UpdatePokeType(t)
    \/ UpdateLevel(t)
    \/ UpdateClone(t)
    \/ DeleteLen(t)
    \/ DeleteRetain(t)
    \/ DeleteCmp(t)
    \/ Return(t)
    \/ Respond(t)

\* The requests the concurrent specification draws from.
FewCreates == { [name |-> "Pikachu", poke_type |-> "Electric", level |-> 5] }
FewUpdates == { [name |-> Some("Raichu"), poke_type |-> Some("Steel"), level |-> Some(10)] }
FewIds == {U32(1), U32Max}

\* Spec: NumTasks requests in flight at once.
Next ==
    \E t \in Tasks :
        \/ CallCreate(t, FewCreates)
        \/ CallList(t)
        \/ CallGet(t, FewIds)
        \/ CallUpdate(t, FewIds, FewUpdates)
        \/ CallDelete(t, FewIds)
        \/ Step(t)

Spec == Init /\ [][Next]_vars

\* SpecSerial: one request at a time, drawn from every payload and path id.
NextSerial ==
    \/ CallCreate(1, CreatePokemon)
    \/ CallList(1)
    \/ CallGet(1, PathIds)
    \/ CallUpdate(1, PathIds, UpdatePokemon)
    \/ CallDelete(1, PathIds)
    \/ Step(1)

SpecSerial == Init /\ [][NextSerial]_vars

\* SpecFair: NumTasks requests in flight at once under fair scheduling.  A task
\* that can run a statement of its handler runs it, and a task that finds the
\* mutex free again and again gets it; requests need not arrive.  Which record
\* a request names does not matter to who gets the lock: one path id per handler.
NextFair ==
    \E t \in Tasks :
        \/ CallCreate(t, FewCreates)
        \/ CallList(t)
        \/ CallGet(t, {U32(1)})
        \/ CallUpdate(t, {U32(1)}, FewUpdates)
        \/ CallDelete(t, {U32Max})
        \/ Step(t)

Fairness == \A t \in Tasks : WF_vars(Step(t)) /\ SF_vars(Lock(t))

SpecFair == Init /\ [][NextFair]_vars /\ Fairness

(* ================================================================ claims *)
Answered(t, kind) == pc[t] = "ret" /\ req[t].kind = kind
Has(t0, id) == \E i \in 1..Len(t0) : t0[i].id = id
\* b = a + 1 over the integers, for u32 a and b.
PlusOne(a, b) ==
    \/ a[2] + 1 < Limb /\ b = <<a[1], a[2] + 1>>
    \/ a[2] + 1 = Limb /\ a[1] + 1 < Limb /\ b = <<a[1] + 1, 0>>
\* s without its i-th element.
Remove(s, i) == SubSeq(s, 1, i - 1) \o SubSeq(s, i + 1, Len(s))

\* C1: in every reachable state the team holds at most one record per id.
C1_OneRecordPerId ==
    \A i, j \in 1..Len(team) : team[i].id = team[j].id => i = j

\* C2: every Create answers 201 with a record whose id is the last record's id
\* plus 1 (1 on an empty team) and whose name, poke_type and level are the
\* request's, and the team is the team it found with exactly that record appended.
C2_CreateAppendsLastPlusOne ==
    \A t \in Tasks : Answered(t, "create") =>
        /\ resp[t].status = CREATED
        /\ Len(resp[t].body) = 1
        /\ LET r == resp[t].body[1]
               before == pre[t]
           IN /\ IF Len(before) = 0 THEN r.id = U32(1)
                 ELSE PlusOne(before[Len(before)].id, r.id)
              /\ r.name = req[t].payload.name
              /\ r.poke_type = req[t].payload.poke_type
              /\ r.level = req[t].payload.level
              /\ team = Append(before, r)

\* C3: GetById answers 200 with a record of that id exactly as its last Update
\* (or, never updated, its Create) answered it, and 404 when no record of that
\* id was created or the one created was deleted.
C3_GetReturnsLatestVersion ==
    \A t \in Tasks : Answered(t, "get") =>
        LET live == {s \in Stamps : latest[s] # None /\ latest[s][1].id = req[t].id}
        IN IF live = {}
           THEN resp[t] = Response(NOT_FOUND, <<>>)
           ELSE resp[t].status = OK /\ \E s \in live : resp[t].body = latest[s]

\* C3, witness: a GetById answers 200 with a record an Update renamed.
C3_Witness ==
    \E t \in Tasks : Answered(t, "get") /\ resp[t].status = OK
                     /\ resp[t].body[1].name = "Raichu" /\ resp[t].body[1].level # 10

\* C4: an Update that finds its record answers 200 with the stored record, in
\* which each of name, poke_type and level is the request's value if present
\* and the prior value if absent.
C4_UpdateOverwritesPresentFields ==
    \A t \in Tasks : Answered(t, "update") /\ Has(pre[t], req[t].id) =>
        /\ resp[t].status = OK
        /\ Len(team) = Len(pre[t])
        /\ \E i \in 1..Len(pre[t]) :
              LET old == pre[t][i]
                  new == team[i]
                  payload == req[t].payload
              IN /\ old.id = req[t].id
                 /\ new.name = IF payload.name # None THEN payload.name[1] ELSE old.name
                 /\ new.poke_type =
                       IF payload.poke_type # None THEN payload.poke_type[1] ELSE old.poke_type
                 /\ new.level = IF payload.level # None THEN payload.level[1] ELSE old.level
                 /\ resp[t].body = <<new>>

\* C4, witness: an Update with only level present answers 200.
C4_Witness ==
    \E t \in Tasks : /\ Answered(t, "update") /\ resp[t].status = OK
                     /\ req[t].payload = [name |-> None, poke_type |-> None, level |-> Some(10)]
                     /\ resp[t].body[1].level # pre[t][pokemon[t]].level

\* C5: a Delete of an id the team holds answers 204, leaves the team one record
\* shorter, namely without the record of that id and otherwise as it was, and a
\* GetById of that id run next answers 404.
C5_DeleteRemovesExactlyOne ==
    \A t \in Tasks : Answered(t, "delete") /\ Has(pre[t], req[t].id) =>
        /\ resp[t] = Response(NO_CONTENT, <<>>)
        /\ Len(team) = Len(pre[t]) - 1
        /\ \E i \in 1..Len(pre[t]) : pre[t][i].id = req[t].id /\ team = Remove(pre[t], i)
        /\ RunGet(team, req[t].id).resp = Response(NOT_FOUND, <<>>)

\* C6: GetById, Update and Delete of an id the team does not hold answer 404
\* and leave the team exactly as they found it.
C6_MissingIdIsNotFoundAndFrame ==
    \A t \in Tasks :
        /\ Answered(t, "get") \/ Answered(t, "update") \/ Answered(t, "delete")
        /\ ~Has(pre[t], req[t].id)
        => resp[t] = Response(NOT_FOUND, <<>>) /\ team = pre[t]

\* C6, witness: an Update with every field present answers 404 on a team that
\* holds records.
C6_Witness ==
    \E t \in Tasks : /\ Answered(t, "update") /\ resp[t].status = NOT_FOUND
                     /\ req[t].payload.name # None /\ req[t].payload.poke_type # None
                     /\ req[t].payload.level # None
                     /\ Len(team) > 0

\* C7: ListAll answers 200 with exactly the records the team holds, which are
\* the records created and not deleted in their latest version, in the order of
\* their creation; an empty team gives an empty list.
C7_ListIsTeamInCreationOrder ==
    \A t \in Tasks : Answered(t, "list") =>
        /\ resp[t].status = OK
        /\ resp[t].body = team
        /\ \A i, j \in 1..Len(resp[t].body) :
              i < j => resp[t].body[i].seq < resp[t].body[j].seq
        /\ {resp[t].body[i] : i \in 1..Len(resp[t].body)}
              = {latest[s][1] : s \in {x \in Stamps : latest[x] # None}}

\* C7, witness: ListAll answers two or more records, an earlier one of them
\* updated after a later one was created.
C7_Witness ==
    \E t \in Tasks : /\ Answered(t, "list") /\ Len(resp[t].body) >= 2
                     /\ resp[t].body[1].name = "Raichu"
                     /\ resp[t].body[2].seq > 0

\* C8: an Update with name, poke_type and level all absent, of an id the team
\* holds, leaves the team as it found it and answers 200 with the record as it was.
C8_EmptyUpdateIsNoOp ==
    \A t \in Tasks :
        Answered(t, "update") /\ req[t].payload = NoPayload /\ Has(pre[t], req[t].id) =>
            /\ team = pre[t]
            /\ resp[t].status = OK
            /\ \E i \in 1..Len(pre[t]) :
                  pre[t][i].id = req[t].id /\ resp[t].body = <<pre[t][i]>>

\* C8, witness: an Update with every field absent answers 200.
C8_Witness ==
    \E t \in Tasks : Answered(t, "update") /\ req[t].payload = NoPayload
                     /\ resp[t].status = OK

\* C9: a task that is past state.lock() and has not returned, which is where
\* every read and write of the team and every answer is made, is the one task
\* holding the lock; so at most one task is there at a time.
C9_OnlyTheLockHolderIsInside ==
    \A t \in Tasks :
        (pc[t] \notin {"idle", "lock"} \/ resp[t] # NoResponse) => lock = t

\* C9, witness: a task is in its handler's body while another waits at the lock.
C9_Witness ==
    \E t, u \in Tasks : t # u /\ pc[t] \in {"c_push", "u_type", "d_retain"} /\ pc[u] = "lock"

\* C10: the answer a task has built is the answer of running the handlers one
\* at a time, whole, in the order in which they got the lock, and whenever the
\* lock is free the team is the team that run leaves.
C10_AsIfOneAtATime ==
    /\ \A t \in Tasks : pc[t] = "ret" => resp[t] = due[t]
    /\ lock = NoTask => team = serial

\* C10, witness: a Create has answered while another Create, called before the
\* first got the lock, still waits for it.
C10_Witness ==
    \E t, u \in Tasks : /\ t # u /\ Answered(t, "create") /\ pc[u] = "lock"
                        /\ req[u].kind \in {"create", "update"}
                        /\ Len(team) >= 2

\* a < b for u32 a and b.
Less(a, b) == a[1] < b[1] \/ (a[1] = b[1] /\ a[2] < b[2])
\* b = a + 1 modulo 2^32, for u32 a and b.
PlusOneMod(a, b) == PlusOne(a, b) \/ (a = U32Max /\ b = U32(0))
Structured(r) == r.status \in {OK, CREATED, NO_CONTENT, NOT_FOUND}

C12_IdsArePositive ==
    /\ \A i \in 1..Len(team) : team[i].id # U32(0)
    /\ \A t \in Tasks : Answered(t, "create") => resp[t].body[1].id # U32(0)

C14_IdsIncreaseUntilOverflow ==
    ~wrapped =>
        /\ \A i, j \in 1..Len(team) : i < j => Less(team[i].id, team[j].id)
        /\ \A t \in Tasks : pc[t] = "c_push" =>
              \A i \in 1..Len(team) : Less(team[i].id, new_id[t])

\* C14, witness: a Create has chosen its id for a team of two records from
\* which an earlier record was deleted.
C14_Witness ==
    \E t \in Tasks : pc[t] = "c_push" /\ ~wrapped /\ Len(team) >= 1 /\ gone # {}
                     /\ new_id[t] # U32(Len(team) + 1)

\* C15: an Update leaves the team's length, every record's id and the order of
\* the records as it found them, and every record whose id is not the
\* requested one unchanged.
C15_UpdateFrame ==
    \A t \in Tasks : Answered(t, "update") =>
        /\ Len(team) = Len(pre[t])
        /\ \A i \in 1..Len(pre[t]) :
              /\ team[i].id = pre[t][i].id
              /\ team[i].seq = pre[t][i].seq
              /\ pre[t][i].id # req[t].id => team[i] = pre[t][i]

\* C15, witness: an Update has changed a record of a team of two or more.
C15_Witness ==
    \E t \in Tasks : /\ Answered(t, "update") /\ resp[t].status = OK
                     /\ Len(team) >= 2 /\ team # pre[t]

\* C16: the statement of ListAll and of GetById leaves the team as it is,
\* whatever it answers, and an answer that has left its handler stays as it is
\* until it is written, whatever later operations do to the team.
C16_ReadsAreReadOnlyAndCopies ==
    [][ /\ \A t \in Tasks : pc[t] \in {"l_clone", "g_find"} /\ pc'[t] = "ret" => team' = team
        /\ \A t \in Tasks :
              sent[t] # NoResponse /\ sent'[t] # NoResponse => sent'[t] = sent[t] ]_vars

\* C16, witness: a ListAll's answer, not yet written, holds a record that a later
\* Update or Delete has changed in the team or removed from it.
C16_Witness ==
    \E t \in Tasks : /\ sent[t].status = OK /\ Len(sent[t].body) >= 2
                     /\ \E i \in 1..Len(sent[t].body) :
                           \A j \in 1..Len(team) : team[j] # sent[t].body[i]

\* C17: once the mutex is poisoned, no step changes the team, takes the lock,
\* enters a handler's body or builds an answer; what an operation then leaves
\* on its connection is no answer at all.
C17_PoisonedLockFailsEveryOperation ==
    [][ poisoned =>
          /\ poisoned'
          /\ team' = team
          /\ lock' = NoTask
          /\ \A t \in Tasks :
                /\ pc'[t] \in {"idle", "lock"}
                /\ resp'[t] = NoResponse
                /\ sent'[t] # sent[t] => sent'[t] \in {Dropped, NoResponse} ]_vars

\* C17, witness: the mutex is poisoned and two operations have failed, the one
\* that poisoned it and one that came to the lock later.
C17_Witness ==
    /\ poisoned
    /\ \E t, u \in Tasks : t # u /\ sent[t] = Dropped /\ sent[u] = Dropped

====
